---- MODULE Spec2Model ----
(***************************************************************************)
(* Internal token ledger of the SLH community bot                          *)
(* (src/slh_internal_wallets.py on top of src/db.py).                      *)
(*                                                                         *)
(* The store is PostgreSQL at its default isolation level (READ COMMITTED):*)
(*   - a transaction's writes are private until COMMIT and are discarded   *)
(*     by ROLLBACK;                                                        *)
(*   - SELECT ... FOR UPDATE and UPDATE take an exclusive row lock that is *)
(*     held until the transaction ends; a statement that needs a lock held *)
(*     by another transaction waits, and then reads the latest committed   *)
(*     row;                                                                *)
(*   - an INSERT of a user_id that another open transaction has inserted   *)
(*     waits for that transaction (UNIQUE(user_id));                       *)
(*   - INSERT ... ON CONFLICT DO NOTHING on a committed row takes no lock. *)
(* Every python function runs its statements one at a time, so every       *)
(* statement is one step of the calling process.  Amounts are integers     *)
(* (multiples of the smallest unit of NUMERIC(36,18)).                     *)
(***************************************************************************)
EXTENDS Integers, Sequences, FiniteSets, TLC

\* ------------------------------------------------------------------ bounds
NumOwners == 2
NumProcs == 2
MaxOps == 3
AmountUnit == 10

Owners == 1..NumOwners
Procs == 1..NumProcs
Amounts == {0, AmountUnit}
NoName == "none"
Names == {NoName, "u"}
Apys == {0, 20}
LockDays == {0, 30}

VARIABLES
    wallets,        \* committed rows of internal_wallets, by user_id
    ledger,         \* committed rows of internal_wallet_ledger, in commit order
    positions,      \* committed rows of staking_positions, in commit order
    wallet_seq,     \* last value of the sequence behind internal_wallets.id
    position_seq,   \* last value of the sequence behind staking_positions.id
    pc,             \* per process: the statement it is about to run
    op,             \* per process: the call it is running
    loc,            \* per process: python locals of the call
    tx,             \* per process: uncommitted writes of its open transaction
    locks,          \* per process: user_ids whose wallet row it has locked
    result,         \* per process: what the call returned
    serial,         \* the same calls run one at a time, in commit order
    budget,         \* calls that may still be started
    cfg,            \* what load_dynamic_config() returns (slh_dynamic_config.json)
    token_price_nis,\* SLH_TOKEN_PRICE_NIS as slh_internal_wallets.py reads it
    payments,       \* status of the latest row of payments, by user_id
    manager,        \* class attributes of TelegramAppManager (main.py)
    app,            \* what has been done with Application objects of main.py
    bot_manager,    \* class attributes of TelegramAppManager (bot/telegram_manager.py)
    bot_app,        \* what has been done with Application objects of bot/
    task            \* per coroutine of the event loop: the await it is suspended at

vars == <<wallets, ledger, positions, wallet_seq, position_seq,
          pc, op, loc, tx, locks, result, serial, budget,
          cfg, token_price_nis, payments,
          manager, app, bot_manager, bot_app, task>>

\* the state of the Telegram application managers
telegram == <<manager, app, bot_manager, bot_app, task>>

\* the state of the wallet store and of its callers
store == <<wallets, ledger, positions, wallet_seq, position_seq,
           pc, op, loc, tx, locks, result, serial, cfg, token_price_nis, payments>>

\* the state main.py keeps beside the wallet tables
issuance == <<cfg, token_price_nis, payments>>

\* --------------------------------------------------------------- the store
NoWallet == [exists |-> FALSE, id |-> 0, username |-> NoName, balance |-> 0]
NoRow == [exists |-> FALSE, id |-> 0, username |-> NoName, balance |-> -1]
NoOp == [kind |-> "none"]
NoLoc == [wallet_id |-> 0, balance |-> 0, discarded |-> 0,
          amount_slh |-> 0, minted |-> 0, mint_error |-> "none",
          stakes |-> <<>>, total_staked |-> 0, total_expected |-> 0]
NoTx == [rows |-> [o \in Owners |-> NoRow], ledger |-> <<>>, positions |-> <<>>]

\* the row of user_id o that a statement of a transaction with writes t sees
RowIn(t, o) == IF t.rows[o] # NoRow THEN t.rows[o] ELSE wallets[o]
Row(p, o) == RowIn(tx[p], o)

\* rows are read without FOR UPDATE: no statement waits for a lock
LockedByOther_unlocked(p, o) == FALSE

\* another open transaction holds the row (or the uncommitted key) of o
LockedByOther(p, o) == \E q \in Procs \ {p} : o \in locks[q]

RECURSIVE SumChanges(_, _)
SumChanges(entries, wallet_id) ==
    IF entries = <<>> THEN 0
    ELSE (IF Head(entries).wallet_id = wallet_id THEN Head(entries).change_slh ELSE 0)
         + SumChanges(Tail(entries), wallet_id)

LedgerEntry(wallet_id, change_slh, ref_type, ref_id) ==
    [wallet_id |-> wallet_id, change_slh |-> change_slh,
     ref_type |-> ref_type, ref_id |-> ref_id]

SerialView(w) == [o \in Owners |-> [exists |-> w[o].exists, balance |-> w[o].balance]]

\* ------------------------------------------------------ db_cursor (db.py)
\* leaving the with-block normally, by conn.commit() or by a return inside
\* the block (the generator resumes after its yield and commits): the
\* writes t of the transaction of p become the committed rows
Commit_rewrites(p, t) ==
    /\ wallets' = [o \in Owners |-> IF t.rows[o] # NoRow THEN t.rows[o] ELSE wallets[o]]
    /\ ledger' = IF t.ledger = <<>> THEN ledger ELSE t.ledger
    /\ positions' = positions \o t.positions
    /\ tx' = [tx EXCEPT ![p] = NoTx]
    /\ locks' = [locks EXCEPT ![p] = {}]

Commit(p, t) ==
    /\ wallets' = [o \in Owners |-> IF t.rows[o] # NoRow THEN t.rows[o] ELSE wallets[o]]
    /\ ledger' = ledger \o t.ledger
    /\ positions' = positions \o t.positions
    /\ tx' = [tx EXCEPT ![p] = NoTx]
    /\ locks' = [locks EXCEPT ![p] = {}]

\* the except branch commits what the transaction has written so far
Rollback_commits(p, t) == Commit(p, t)

\* leaving the with-block by an exception: conn.rollback() discards the writes t
Rollback(p, t) ==
    /\ UNCHANGED <<wallets, ledger, positions>>
    /\ tx' = [tx EXCEPT ![p] = NoTx]
    /\ locks' = [locks EXCEPT ![p] = {}]

\* INSERT INTO internal_wallets (user_id, username) ... ON CONFLICT (user_id) DO NOTHING
\* (every executed INSERT takes a value of the id sequence, also on conflict)
InsertWalletDoNothing(p, o, username) ==
    /\ wallet_seq' = wallet_seq + 1
    /\ IF wallets[o].exists \/ tx[p].rows[o] # NoRow
       THEN UNCHANGED <<tx, locks>>
       ELSE /\ tx' = [tx EXCEPT ![p].rows[o] =
                        [exists |-> TRUE, id |-> wallet_seq + 1,
                         username |-> username, balance |-> 0]]
            /\ locks' = [locks EXCEPT ![p] = @ \cup {o}]

\* the user_id an INSERT of o by p has to wait for: an uncommitted row of
\* another transaction under the same UNIQUE(user_id) key
InsertNeeds(p, o) == IF wallets[o].exists \/ tx[p].rows[o] # NoRow THEN {} ELSE {o}

\* no amount is refused
InvalidAmount_never(amount_slh) == FALSE

\* if amount_slh <= 0: return False, ...   (before db_cursor is entered)
InvalidAmount(amount_slh) == amount_slh <= 0

\* the guard compares against zero instead of the amount
InsufficientFunds_nocheck(balance, amount_slh) == balance < 0

\* if from_balance < amount_slh / if balance < amount_slh
InsufficientFunds(balance, amount_slh) == balance < amount_slh

\* ------------------------------------------------ ensure_internal_wallet
SerialEnsure(w, user_id) ==
    [w |-> [w EXCEPT ![user_id] = [exists |-> TRUE, balance |-> w[user_id].balance]],
     result |-> "ok"]

\* the row of the user is replaced by a new row
UpsertWallet_replaces(p, o, username) ==
    [tx[p] EXCEPT !.rows[o] = [exists |-> TRUE, id |-> wallet_seq + 1,
                               username |-> username, balance |-> 0]]

\* INSERT ... ON CONFLICT (user_id) DO UPDATE SET username = EXCLUDED.username
UpsertWallet(p, o, username) ==
    [tx[p] EXCEPT !.rows[o] =
          IF wallets[o].exists
          THEN [wallets[o] EXCEPT !.username = username]
          ELSE [exists |-> TRUE, id |-> wallet_seq + 1,
                username |-> username, balance |-> 0]]

\* the writes of ensure_internal_wallet(user_id, username)
EnsureWrites(p) == UpsertWallet(p, op[p].user_id, op[p].username)

ensure_begin(p) ==
    /\ pc[p] = "idle" /\ budget > 0
    /\ \E user_id \in Owners, username \in Names :
          op' = [op EXCEPT ![p] = [kind |-> "ensure", user_id |-> user_id,
                                   username |-> username]]
    /\ pc' = [pc EXCEPT ![p] = "e_upsert"]
    /\ result' = [result EXCEPT ![p] = "running"]
    /\ budget' = budget - 1
    /\ UNCHANGED <<wallets, ledger, positions, wallet_seq, position_seq, loc, tx,
                   locks, serial>>
    /\ UNCHANGED issuance
    /\ UNCHANGED telegram

\* the upsert, conn.commit() and the return of the row (RETURNING id, ...)
ensure_upsert(p) ==
    /\ pc[p] = "e_upsert"
    /\ ~LockedByOther(p, op[p].user_id)
    /\ wallet_seq' = wallet_seq + 1
    /\ Commit(p, EnsureWrites(p))
    /\ pc' = [pc EXCEPT ![p] = "done"]
    /\ result' = [result EXCEPT ![p] = "ok"]
    /\ LET s == SerialEnsure(serial.w, op[p].user_id)
       IN serial' = [w |-> s.w, result |-> [serial.result EXCEPT ![p] = s.result]]
    /\ loc' = [loc EXCEPT ![p].wallet_id = EnsureWrites(p).rows[op[p].user_id].id]
    /\ UNCHANGED <<position_seq, op, budget>>
    /\ UNCHANGED issuance
    /\ UNCHANGED telegram

\* ---------------------------------------------------------- credit_wallet
SerialCredit(w, user_id, amount) ==
    IF amount <= 0 THEN [w |-> w, result |-> "value_error"]
    ELSE [w |-> [w EXCEPT ![user_id] =
                    [exists |-> TRUE, balance |-> w[user_id].balance + amount]],
          result |-> "ok"]

\* the writes of the transaction after k of: the UPDATE of the balance
\* (balance_slh + amount, username = COALESCE(%s, username)), the INSERT into the ledger
CreditWrites(p, k) ==
    LET o == op[p].user_id
        old == Row(p, o)
        t1 == IF k >= 1
              THEN [tx[p] EXCEPT !.rows[o] =
                      [old EXCEPT !.balance = old.balance + op[p].amount_slh,
                                  !.username = IF op[p].username # NoName
                                               THEN op[p].username ELSE old.username]]
              ELSE tx[p]
    IN IF k >= 2
       THEN [t1 EXCEPT !.ledger = Append(@,
                LedgerEntry(old.id, op[p].amount_slh, op[p].ref_type, 0))]
       ELSE t1

credit_begin(p) ==
    /\ pc[p] = "idle" /\ budget > 0
    /\ \E user_id \in Owners, username \in Names, amount \in Amounts :
          /\ op' = [op EXCEPT ![p] = [kind |-> "credit", user_id |-> user_id,
                                      username |-> username, amount_slh |-> amount,
                                      ref_type |-> "credit"]]
          /\ IF amount <= 0
             THEN /\ pc' = [pc EXCEPT ![p] = "done"]
                  /\ result' = [result EXCEPT ![p] = "value_error"]
                  /\ serial' = [serial EXCEPT !.result[p] =
                                   SerialCredit(serial.w, user_id, amount).result]
             ELSE /\ pc' = [pc EXCEPT ![p] = "c_insert"]
                  /\ result' = [result EXCEPT ![p] = "running"]
                  /\ UNCHANGED serial
    /\ budget' = budget - 1
    /\ UNCHANGED <<wallets, ledger, positions, wallet_seq, position_seq, loc, tx, locks>>
    /\ UNCHANGED issuance
    /\ UNCHANGED telegram

credit_insert(p) ==
    /\ pc[p] = "c_insert"
    /\ \A o \in InsertNeeds(p, op[p].user_id) : ~LockedByOther(p, o)
    /\ InsertWalletDoNothing(p, op[p].user_id, op[p].username)
    /\ pc' = [pc EXCEPT ![p] = "c_update"]
    /\ UNCHANGED <<wallets, ledger, positions, position_seq, op, loc, result, serial, budget>>
    /\ UNCHANGED issuance
    /\ UNCHANGED telegram

\* the UPDATE (which locks the row), the ledger INSERT and conn.commit()
credit_update(p) ==
    /\ pc[p] = "c_update"
    /\ ~LockedByOther(p, op[p].user_id)
    /\ Commit(p, CreditWrites(p, 2))
    /\ pc' = [pc EXCEPT ![p] = "done"]
    /\ result' = [result EXCEPT ![p] = "ok"]
    /\ LET s == SerialCredit(serial.w, op[p].user_id, op[p].amount_slh)
       IN serial' = [w |-> s.w, result |-> [serial.result EXCEPT ![p] = s.result]]
    /\ UNCHANGED <<wallet_seq, position_seq, op, loc, budget>>
    /\ UNCHANGED issuance
    /\ UNCHANGED telegram

\* ------------------------------------------------ transfer_between_users
\* transfer_between_users run alone on wallets w
SerialTransfer(w, from, to, amount) ==
    LET w1 == [o \in Owners |->
                 IF o \in {from, to} /\ ~w[o].exists
                 THEN [exists |-> TRUE, balance |-> 0] ELSE w[o]]
        new_from == w1[from].balance - amount
        new_to == w1[to].balance + amount
    IN  IF amount <= 0 THEN [w |-> w, result |-> "invalid_amount"]
        ELSE IF InsufficientFunds(w1[from].balance, amount) THEN [w |-> w1, result |-> "insufficient"]
        ELSE [w |-> [[w1 EXCEPT ![from].balance = new_from] EXCEPT ![to].balance = new_to],
              result |-> "ok"]

\* the UPDATE of the sender is lost: only the receiver row and the ledger
\* rows are written
TransferWrites_nodebit(p, k) ==
    LET from == op[p].from_user_id
        to == op[p].to_user_id
        amount == op[p].amount_slh
        to_row == Row(p, to)
        t2 == IF k >= 2
              THEN [tx[p] EXCEPT !.rows[to] = [to_row EXCEPT !.balance = to_row.balance + amount]]
              ELSE tx[p]
        t3 == IF k >= 3
              THEN [t2 EXCEPT !.ledger = Append(@,
                      LedgerEntry(loc[p].wallet_id, 0 - amount, "transfer", to))]
              ELSE t2
    IN IF k >= 4
       THEN [t3 EXCEPT !.ledger = Append(@,
                LedgerEntry(to_row.id, amount, "transfer", from))]
       ELSE t3

\* the writes of the transaction after k of: UPDATE sender, UPDATE receiver,
\* INSERT ledger row of the sender, INSERT ledger row of the receiver
\* (to_balance is what the second SELECT ... FOR UPDATE returns)
TransferWrites(p, k) ==
    LET from == op[p].from_user_id
        to == op[p].to_user_id
        amount == op[p].amount_slh
        to_row == Row(p, to)
        new_from == loc[p].balance - amount
        new_to == to_row.balance + amount
        t1 == IF k >= 1
              THEN [tx[p] EXCEPT !.rows[from] = [Row(p, from) EXCEPT !.balance = new_from]]
              ELSE tx[p]
        t2 == IF k >= 2
              THEN [t1 EXCEPT !.rows[to] = [RowIn(t1, to) EXCEPT !.balance = new_to]]
              ELSE t1
        t3 == IF k >= 3
              THEN [t2 EXCEPT !.ledger = Append(@,
                      LedgerEntry(loc[p].wallet_id, 0 - amount, "transfer", to))]
              ELSE t2
    IN IF k >= 4
       THEN [t3 EXCEPT !.ledger = Append(@,
                LedgerEntry(to_row.id, amount, "transfer", from))]
       ELSE t3

transfer_begin(p) ==
    /\ pc[p] = "idle" /\ budget > 0
    /\ \E from \in Owners, to \in Owners, amount \in Amounts :
          /\ op' = [op EXCEPT ![p] = [kind |-> "transfer", from_user_id |-> from,
                                      to_user_id |-> to, amount_slh |-> amount]]
          /\ IF InvalidAmount(amount)
             THEN /\ pc' = [pc EXCEPT ![p] = "done"]
                  /\ result' = [result EXCEPT ![p] = "invalid_amount"]
                  /\ serial' = [serial EXCEPT !.result[p] =
                                   SerialTransfer(serial.w, from, to, amount).result]
             ELSE /\ pc' = [pc EXCEPT ![p] = "t_insert_from"]
                  /\ result' = [result EXCEPT ![p] = "running"]
                  /\ UNCHANGED serial
    /\ budget' = budget - 1
    /\ UNCHANGED <<wallets, ledger, positions, wallet_seq, position_seq, loc, tx, locks>>
    /\ UNCHANGED issuance
    /\ UNCHANGED telegram

transfer_insert_from(p) ==
    /\ pc[p] = "t_insert_from"
    /\ \A o \in InsertNeeds(p, op[p].from_user_id) : ~LockedByOther(p, o)
    /\ InsertWalletDoNothing(p, op[p].from_user_id, NoName)
    /\ pc' = [pc EXCEPT ![p] = "t_insert_to"]
    /\ UNCHANGED <<wallets, ledger, positions, position_seq, op, loc, result, serial, budget>>
    /\ UNCHANGED issuance
    /\ UNCHANGED telegram

transfer_insert_to(p) ==
    /\ pc[p] = "t_insert_to"
    /\ \A o \in InsertNeeds(p, op[p].to_user_id) : ~LockedByOther(p, o)
    /\ InsertWalletDoNothing(p, op[p].to_user_id, NoName)
    /\ pc' = [pc EXCEPT ![p] = "t_select_from"]
    /\ UNCHANGED <<wallets, ledger, positions, position_seq, op, loc, result, serial, budget>>
    /\ UNCHANGED issuance
    /\ UNCHANGED telegram

\* SELECT id, balance_slh ... WHERE user_id = from_user_id FOR UPDATE, and
\* if from_balance < amount_slh: return False, ...   (inside the with-block)
transfer_select_from(p) ==
    /\ pc[p] = "t_select_from"
    /\ ~LockedByOther(p, op[p].from_user_id)
    /\ LET row_from == Row(p, op[p].from_user_id)
       IN IF InsufficientFunds(row_from.balance, op[p].amount_slh)
          THEN /\ Commit(p, tx[p])
               /\ pc' = [pc EXCEPT ![p] = "done"]
               /\ result' = [result EXCEPT ![p] = "insufficient"]
               /\ LET s == SerialTransfer(serial.w, op[p].from_user_id,
                                          op[p].to_user_id, op[p].amount_slh)
                  IN serial' = [w |-> s.w,
                                result |-> [serial.result EXCEPT ![p] = s.result]]
               /\ UNCHANGED loc
          ELSE /\ locks' = [locks EXCEPT ![p] = @ \cup {op[p].from_user_id}]
               /\ loc' = [loc EXCEPT ![p].wallet_id = row_from.id,
                                     ![p].balance = row_from.balance]
               /\ pc' = [pc EXCEPT ![p] = "t_select_to"]
               /\ UNCHANGED <<wallets, ledger, positions, tx, result, serial>>
    /\ UNCHANGED <<wallet_seq, position_seq, op, budget>>
    /\ UNCHANGED issuance
    /\ UNCHANGED telegram

\* SELECT id, balance_slh ... WHERE user_id = to_user_id FOR UPDATE, the two
\* UPDATEs, the two ledger INSERTs and conn.commit()
transfer_select_to(p) ==
    /\ pc[p] = "t_select_to"
    /\ ~LockedByOther(p, op[p].to_user_id)
    /\ Commit(p, TransferWrites(p, 4))
    /\ pc' = [pc EXCEPT ![p] = "done"]
    /\ result' = [result EXCEPT ![p] = "ok"]
    /\ LET s == SerialTransfer(serial.w, op[p].from_user_id,
                               op[p].to_user_id, op[p].amount_slh)
       IN serial' = [w |-> s.w, result |-> [serial.result EXCEPT ![p] = s.result]]
    /\ UNCHANGED <<wallet_seq, position_seq, op, loc, budget>>
    /\ UNCHANGED issuance
    /\ UNCHANGED telegram

\* -------------------------------------------------- create_stake_position
SerialStake(w, user_id, amount, apy) ==
    IF amount <= 0 THEN [w |-> w, result |-> "invalid_amount"]
    ELSE IF apy <= 0 THEN [w |-> w, result |-> "invalid_apy"]
    ELSE IF ~w[user_id].exists THEN [w |-> w, result |-> "no_wallet"]
    ELSE IF InsufficientFunds(w[user_id].balance, amount) THEN [w |-> w, result |-> "insufficient"]
    ELSE [w |-> [w EXCEPT ![user_id].balance = w[user_id].balance - amount],
          result |-> "ok"]

\* the position is inserted as closed
NewPosition_closed(p, position_id) ==
    [id |-> position_id, user_id |-> op[p].user_id,
     wallet_id |-> loc[p].wallet_id, amount_slh |-> op[p].amount_slh,
     apy |-> op[p].apy, lock_days |-> op[p].lock_days,
     status |-> "closed", closed_at |-> TRUE, total_rewards_slh |-> 0]

\* INSERT INTO staking_positions (user_id, wallet_id, amount_slh, apy,
\* lock_days, status) VALUES (..., 'active'); closed_at and total_rewards_slh
\* take the defaults of the table (NULL and 0)
NewPosition(p, position_id) ==
    [id |-> position_id, user_id |-> op[p].user_id,
     wallet_id |-> loc[p].wallet_id, amount_slh |-> op[p].amount_slh,
     apy |-> op[p].apy, lock_days |-> op[p].lock_days,
     status |-> "active", closed_at |-> FALSE, total_rewards_slh |-> 0]

\* the ledger row of the stake is not inserted
StakeWrites_noledger(p, k) ==
    LET o == op[p].user_id
        t1 == IF k >= 1
              THEN [tx[p] EXCEPT !.rows[o] =
                      [Row(p, o) EXCEPT !.balance = loc[p].balance - op[p].amount_slh]]
              ELSE tx[p]
    IN IF k >= 2
       THEN [t1 EXCEPT !.positions = Append(@, NewPosition(p, position_seq + 1))]
       ELSE t1

\* the writes of the transaction after k of: UPDATE of the balance, INSERT of
\* the position (status 'active'), INSERT of the ledger row
StakeWrites(p, k) ==
    LET o == op[p].user_id
        position_id == position_seq + 1
        t1 == IF k >= 1
              THEN [tx[p] EXCEPT !.rows[o] =
                      [Row(p, o) EXCEPT !.balance = loc[p].balance - op[p].amount_slh]]
              ELSE tx[p]
        t2 == IF k >= 2
              THEN [t1 EXCEPT !.positions = Append(@, NewPosition(p, position_id))]
              ELSE t1
    IN IF k >= 3
       THEN [t2 EXCEPT !.ledger = Append(@,
                LedgerEntry(loc[p].wallet_id, 0 - op[p].amount_slh, "stake", position_id))]
       ELSE t2

stake_begin(p) ==
    /\ pc[p] = "idle" /\ budget > 0
    /\ \E user_id \in Owners, amount \in Amounts, apy \in Apys, lock_days \in LockDays :
          /\ op' = [op EXCEPT ![p] = [kind |-> "stake", user_id |-> user_id,
                                      amount_slh |-> amount, apy |-> apy,
                                      lock_days |-> lock_days]]
          /\ IF InvalidAmount(amount) \/ apy <= 0
             THEN /\ pc' = [pc EXCEPT ![p] = "done"]
                  /\ result' = [result EXCEPT ![p] =
                                   IF InvalidAmount(amount) THEN "invalid_amount"
                                   ELSE "invalid_apy"]
                  /\ serial' = [serial EXCEPT !.result[p] =
                                   SerialStake(serial.w, user_id, amount, apy).result]
             ELSE /\ pc' = [pc EXCEPT ![p] = "s_select"]
                  /\ result' = [result EXCEPT ![p] = "running"]
                  /\ UNCHANGED serial
    /\ budget' = budget - 1
    /\ UNCHANGED <<wallets, ledger, positions, wallet_seq, position_seq, loc, tx, locks>>
    /\ UNCHANGED issuance
    /\ UNCHANGED telegram

\* SELECT id, balance_slh FROM internal_wallets WHERE user_id = %s FOR UPDATE
\* if not row: return ...; if balance < amount_slh: return ...  (inside the with-block)
stake_select(p) ==
    /\ pc[p] = "s_select"
    /\ wallets[op[p].user_id].exists => ~LockedByOther(p, op[p].user_id)
    /\ LET o == op[p].user_id
           s == SerialStake(serial.w, o, op[p].amount_slh, op[p].apy)
       IN IF ~wallets[o].exists \/ InsufficientFunds(wallets[o].balance, op[p].amount_slh)
          THEN /\ Commit(p, tx[p])
               /\ pc' = [pc EXCEPT ![p] = "done"]
               /\ result' = [result EXCEPT ![p] =
                                IF ~wallets[o].exists THEN "no_wallet" ELSE "insufficient"]
               /\ serial' = [w |-> s.w, result |-> [serial.result EXCEPT ![p] = s.result]]
               /\ UNCHANGED loc
          ELSE /\ locks' = [locks EXCEPT ![p] = @ \cup {o}]
               /\ loc' = [loc EXCEPT ![p].wallet_id = wallets[o].id,
                                     ![p].balance = wallets[o].balance]
               /\ pc' = [pc EXCEPT ![p] = "s_update"]
               /\ UNCHANGED <<wallets, ledger, positions, tx, result, serial>>
    /\ UNCHANGED <<wallet_seq, position_seq, op, budget>>
    /\ UNCHANGED issuance
    /\ UNCHANGED telegram

\* the UPDATE, the INSERT of the position, the ledger INSERT and conn.commit()
stake_update(p) ==
    /\ pc[p] = "s_update"
    /\ position_seq' = position_seq + 1
    /\ Commit(p, StakeWrites(p, 3))
    /\ pc' = [pc EXCEPT ![p] = "done"]
    /\ result' = [result EXCEPT ![p] = "ok"]
    /\ LET s == SerialStake(serial.w, op[p].user_id, op[p].amount_slh, op[p].apy)
       IN serial' = [w |-> s.w, result |-> [serial.result EXCEPT ![p] = s.result]]
    /\ UNCHANGED <<wallet_seq, op, loc, budget>>
    /\ UNCHANGED issuance
    /\ UNCHANGED telegram

\* ---------------------------------------------------------------- issuance
\* Amounts of SLH are counted in units of 0.0001 SLH, the precision of
\* compute_slh_for_entry; prices and entry amounts are whole NIS.  The
\* quotient of mint_slh_from_payment (18 places in the code) is kept to the
\* same 4 places.
DEFAULT_SLH_PRICE == 444
DEFAULT_ENTRY_AMOUNT == 39
SLH_TOKEN_PRICE_NIS == 444
SLH_ENTRY_PRICE_NIS == 39
Places4 == 10000
NewPrice == 600

TinyExponent == -400
MinDoubleExponent == -324

\* Decimal(text): coefficient * 10^exponent
Dec(coefficient, exponent) == [coefficient |-> coefficient, exponent |-> exponent]

\* the prices sent with /set_price: 0, 600 and 1e-400
NewPrices == {Dec(0, 0), Dec(NewPrice, 0), Dec(1, TinyExponent)}

RECURSIVE Pow10(_)
Pow10(e) == IF e <= 0 THEN 1 ELSE 10 * Pow10(e - 1)

\* float(d) of a Decimal d with a one-digit or whole coefficient: a value
\* below the smallest double becomes 0.0; the whole prices of the model are
\* doubles, and json and Decimal(str(...)) give them back unchanged
float(d) ==
    IF d.coefficient = 0 \/ d.exponent < MinDoubleExponent THEN 0
    ELSE d.coefficient * Pow10(d.exponent)

\* is_admin(user.id): the user id is one of ADMIN_OWNER_IDS
is_admin(user) == user = "admin"

Users == {"admin", "member"}

\* the number of parameters of def mint_slh_from_payment(amount_nis)
mint_slh_from_payment_params == 1
PercentBase == 100

NoPayment == "none"

\* Decimal.quantize in the default context (ROUND_HALF_EVEN): n / d to the
\* nearest whole unit, ties to the even unit
RoundHalfEven(n, d) ==
    LET q == n \div d
        r == n % d
    IN IF 2 * r < d THEN q
       ELSE IF 2 * r > d THEN q + 1
       ELSE IF q % 2 = 0 THEN q ELSE q + 1

\* base of load_dynamic_config(): the file does not exist yet
BaseConfig(price_nis) ==
    [slh_nis_price |-> price_nis, nis_entry_amount |-> DEFAULT_ENTRY_AMOUNT,
     total_slh_minted |-> 0]

\* save_dynamic_config(new_cfg): the file is replaced, or the write fails
\* and the error is only logged
save_dynamic_config(new_cfg, written) == IF written THEN new_cfg ELSE cfg

compute_slh_for_entry(price_nis, entry_nis) ==
    IF price_nis <= 0 THEN 0 ELSE RoundHalfEven(entry_nis * Places4, price_nis)

\* mint_slh_from_payment(amount_nis): a computation, it writes nothing
mint_slh_from_payment(amount_nis) ==
    IF token_price_nis <= 0 THEN 0
    ELSE RoundHalfEven(amount_nis * Places4, token_price_nis)

\* calling mint_slh_from_payment with nargs positional arguments raises
TypeError(nargs) == nargs # mint_slh_from_payment_params

record_mint_amount(amount_slh, written) ==
    save_dynamic_config([cfg EXCEPT !.total_slh_minted = @ + amount_slh], written)

\* the TypeError of the second call leaves auto_mint_slh_for_entry
auto_mint_slh_for_entry_raises(written) ==
    LET amount_slh == compute_slh_for_entry(cfg.slh_nis_price, cfg.nis_entry_amount)
    IN IF amount_slh <= 0
       THEN [amount_slh |-> amount_slh, minted |-> 0, error |-> "skipped",
             raised |-> FALSE, cfg |-> cfg]
       ELSE [amount_slh |-> amount_slh, minted |-> 0, error |-> "TypeError",
             raised |-> TRUE, cfg |-> cfg]

\* auto_mint_slh_for_entry(user_id): what it returns (0 for None), the
\* error it logged and the configuration it leaves.  The call with three
\* arguments is tried first, the call with two on TypeError; any exception
\* is caught by the outer except Exception and None is returned
auto_mint_slh_for_entry(written) ==
    LET amount_slh == compute_slh_for_entry(cfg.slh_nis_price, cfg.nis_entry_amount)
    IN IF amount_slh <= 0
       THEN [amount_slh |-> amount_slh, minted |-> 0, error |-> "skipped",
             raised |-> FALSE, cfg |-> cfg]
       ELSE IF TypeError(3) /\ TypeError(2)
       THEN [amount_slh |-> amount_slh, minted |-> 0, error |-> "TypeError",
             raised |-> FALSE, cfg |-> cfg]
       ELSE [amount_slh |-> amount_slh, minted |-> amount_slh, error |-> "none",
             raised |-> FALSE, cfg |-> record_mint_amount(amount_slh, written)]

\* /approve <user_id> and the inline button approve:<user_id>
approve_command(p) ==
    /\ pc[p] = "idle" /\ budget > 0
    /\ \E target_id \in Owners :
          op' = [op EXCEPT ![p] = [kind |-> "approve", user_id |-> target_id,
                                   username |-> NoName]]
    /\ pc' = [pc EXCEPT ![p] = "a_status"]
    /\ result' = [result EXCEPT ![p] = "running"]
    /\ budget' = budget - 1
    /\ UNCHANGED <<wallets, ledger, positions, wallet_seq, position_seq, loc, tx,
                   locks, serial>>
    /\ UNCHANGED issuance
    /\ UNCHANGED telegram

\* update_payment_status(target_id, "approved", ...): UPDATE of the latest
\* payment of the user, if there is one, and commit
update_payment_status(p) ==
    /\ pc[p] = "a_status"
    /\ payments' = [payments EXCEPT ![op[p].user_id] =
                       IF @ = NoPayment THEN @ ELSE "approved"]
    /\ pc' = [pc EXCEPT ![p] = "a_ensure"]
    /\ UNCHANGED <<wallets, ledger, positions, wallet_seq, position_seq, op, loc, tx,
                   locks, result, serial, budget, cfg, token_price_nis>>
    /\ UNCHANGED telegram

\* ensure_internal_wallet(target_id, None)
approve_ensure_internal_wallet(p) ==
    /\ pc[p] = "a_ensure"
    /\ ~LockedByOther(p, op[p].user_id)
    /\ wallet_seq' = wallet_seq + 1
    /\ Commit(p, EnsureWrites(p))
    /\ pc' = [pc EXCEPT ![p] = "a_mint"]
    /\ serial' = [serial EXCEPT !.w = SerialEnsure(serial.w, op[p].user_id).w]
    /\ UNCHANGED <<position_seq, op, loc, result, budget>>
    /\ UNCHANGED issuance
    /\ UNCHANGED telegram

\* minted = await auto_mint_slh_for_entry(target_id)
approve_auto_mint(p) ==
    /\ pc[p] = "a_mint"
    /\ \E written \in BOOLEAN :
          LET minting == auto_mint_slh_for_entry(written)
          IN /\ cfg' = minting.cfg
             /\ loc' = [loc EXCEPT ![p].amount_slh = minting.amount_slh,
                                   ![p].minted = minting.minted,
                                   ![p].mint_error = minting.error]
             /\ IF minting.raised
                THEN /\ pc' = [pc EXCEPT ![p] = "done"]
                     /\ result' = [result EXCEPT ![p] = "exception"]
                     /\ serial' = [serial EXCEPT !.result[p] = "exception"]
                ELSE /\ pc' = [pc EXCEPT ![p] = "a_notify"]
                     /\ UNCHANGED <<result, serial>>
    /\ UNCHANGED <<wallets, ledger, positions, wallet_seq, position_seq, op, tx,
                   locks, budget, token_price_nis, payments>>
    /\ UNCHANGED telegram

\* the message to the user (an error of it is caught and logged) and the
\* message to the administrator
approve_send_message(p) ==
    /\ pc[p] = "a_notify"
    /\ pc' = [pc EXCEPT ![p] = "done"]
    /\ result' = [result EXCEPT ![p] = "ok"]
    /\ serial' = [serial EXCEPT !.result[p] = "ok"]
    /\ UNCHANGED <<wallets, ledger, positions, wallet_seq, position_seq, op, loc, tx,
                   locks, budget>>
    /\ UNCHANGED issuance
    /\ UNCHANGED telegram

\* the new price is stored under the key of the entry amount
set_price_config_wrongkey(new_price) == [cfg EXCEPT !.nis_entry_amount = float(new_price)]

\* cfg = load_dynamic_config(); cfg["slh_nis_price"] = float(new_price)
set_price_config(new_price) == [cfg EXCEPT !.slh_nis_price = float(new_price)]

\* /set_price <price>: refused unless is_admin(user.id); new_price <= 0
\* compares the Decimal, before it is converted
set_price_command(p) ==
    /\ pc[p] = "idle" /\ budget > 0
    /\ \E user \in Users, new_price \in NewPrices, written \in BOOLEAN :
          /\ op' = [op EXCEPT ![p] = [kind |-> "set_price", user |-> user,
                                      new_price |-> new_price]]
          /\ IF ~is_admin(user)
             THEN /\ result' = [result EXCEPT ![p] = "not_admin"]
                  /\ serial' = [serial EXCEPT !.result[p] = "not_admin"]
                  /\ UNCHANGED cfg
             ELSE IF new_price.coefficient <= 0
             THEN /\ result' = [result EXCEPT ![p] = "invalid_price"]
                  /\ serial' = [serial EXCEPT !.result[p] = "invalid_price"]
                  /\ UNCHANGED cfg
             ELSE /\ cfg' = save_dynamic_config(set_price_config(new_price), written)
                  /\ result' = [result EXCEPT ![p] = "ok"]
                  /\ serial' = [serial EXCEPT !.result[p] = "ok"]
    /\ pc' = [pc EXCEPT ![p] = "done"]
    /\ budget' = budget - 1
    /\ UNCHANGED <<wallets, ledger, positions, wallet_seq, position_seq, loc, tx,
                   locks, token_price_nis, payments>>
    /\ UNCHANGED telegram

\* credit_wallet_from_entry_price(user_id, username): credit_wallet_from_payment
\* of the entry price; the credit itself is credit_wallet
credit_wallet_from_entry_price(p) ==
    /\ pc[p] = "idle" /\ budget > 0
    /\ \E user_id \in Owners :
          LET slh_amount == mint_slh_from_payment(SLH_ENTRY_PRICE_NIS)
          IN /\ op' = [op EXCEPT ![p] = [kind |-> "credit", user_id |-> user_id,
                                         username |-> NoName, amount_slh |-> slh_amount,
                                         ref_type |-> "entry_payment"]]
             /\ IF slh_amount <= 0
                THEN /\ pc' = [pc EXCEPT ![p] = "done"]
                     /\ result' = [result EXCEPT ![p] = "value_error"]
                     /\ serial' = [serial EXCEPT !.result[p] = "value_error"]
                ELSE /\ pc' = [pc EXCEPT ![p] = "c_insert"]
                     /\ result' = [result EXCEPT ![p] = "running"]
                     /\ UNCHANGED serial
    /\ budget' = budget - 1
    /\ UNCHANGED <<wallets, ledger, positions, wallet_seq, position_seq, loc, tx, locks>>
    /\ UNCHANGED issuance
    /\ UNCHANGED telegram

\* /admin_credit <user_id> <amount_slh>: refused unless is_admin(user.id) and
\* amount > 0; then ensure_internal_wallet(target_id, None), in a transaction
\* of its own
admin_credit_command(p) ==
    /\ pc[p] = "idle" /\ budget > 0
    /\ \E user \in Users, target_id \in Owners, amount \in Amounts :
          /\ op' = [op EXCEPT ![p] = [kind |-> "admin_credit", user |-> user,
                                      user_id |-> target_id, username |-> NoName,
                                      amount_slh |-> amount]]
          /\ IF ~is_admin(user) \/ InvalidAmount(amount)
             THEN /\ pc' = [pc EXCEPT ![p] = "done"]
                  /\ result' = [result EXCEPT ![p] =
                                    IF ~is_admin(user) THEN "not_admin" ELSE "invalid_amount"]
                  /\ serial' = [serial EXCEPT !.result[p] = result'[p]]
                  /\ UNCHANGED <<wallets, ledger, positions, wallet_seq, tx, locks>>
             ELSE /\ ~LockedByOther(p, target_id)
                  /\ wallet_seq' = wallet_seq + 1
                  /\ Commit(p, UpsertWallet(p, target_id, NoName))
                  /\ pc' = [pc EXCEPT ![p] = "ac_mint"]
                  /\ result' = [result EXCEPT ![p] = "running"]
                  /\ serial' = [serial EXCEPT !.w = SerialEnsure(serial.w, target_id).w]
    /\ budget' = budget - 1
    /\ UNCHANGED <<position_seq, loc>>
    /\ UNCHANGED issuance
    /\ UNCHANGED telegram

\* mint_slh_from_payment(target_id, amount, reason), on TypeError
\* mint_slh_from_payment(target_id, amount), then record_mint_amount(amount);
\* any exception is caught by the outer except Exception, which answers
\* with an error message
admin_credit_mint(p) ==
    /\ pc[p] = "ac_mint"
    /\ \E written \in BOOLEAN :
          IF TypeError(3) /\ TypeError(2)
          THEN /\ result' = [result EXCEPT ![p] = "credit_error"]
               /\ UNCHANGED cfg
          ELSE /\ result' = [result EXCEPT ![p] = "ok"]
               /\ cfg' = record_mint_amount(op[p].amount_slh, written)
    /\ serial' = [serial EXCEPT !.result[p] = result'[p]]
    /\ pc' = [pc EXCEPT ![p] = "done"]
    /\ UNCHANGED <<wallets, ledger, positions, wallet_seq, position_seq, op, loc, tx,
                   locks, budget, token_price_nis, payments>>
    /\ UNCHANGED telegram

\* ------------------------------------------------ views (main.py)
\* SELECT ... FROM staking_positions WHERE user_id = %s ORDER BY started_at
\* DESC: started_at is the time of the transaction that inserted the row,
\* and the transactions that stake for one user follow each other (each
\* locks the wallet row first), so the latest row of the user comes first
RECURSIVE SelectStakes(_, _)
SelectStakes(rows, user_id) ==
    IF rows = <<>> THEN <<>>
    ELSE SelectStakes(Tail(rows), user_id)
         \o (IF Head(rows).user_id = user_id THEN <<Head(rows)>> ELSE <<>>)

\* total_staked += amt
RECURSIVE TotalStaked(_)
TotalStaked(stakes) ==
    IF stakes = <<>> THEN 0 ELSE Head(stakes).amount_slh + TotalStaked(Tail(stakes))

\* total_expected += amt + (amt * apy / Decimal("100")), in hundredths of a unit
RECURSIVE TotalExpected(_)
TotalExpected(stakes) ==
    IF stakes = <<>> THEN 0
    ELSE Head(stakes).amount_slh * PercentBase + Head(stakes).amount_slh * Head(stakes).apy
         + TotalExpected(Tail(stakes))

\* ensure_internal_wallet(user_id, username) of a view, in a transaction of
\* its own
ViewEnsure(p, user_id, username) ==
    /\ ~LockedByOther(p, user_id)
    /\ wallet_seq' = wallet_seq + 1
    /\ Commit(p, UpsertWallet(p, user_id, username))
    /\ pc' = [pc EXCEPT ![p] = "v_overview"]
    /\ result' = [result EXCEPT ![p] = "running"]
    /\ serial' = [serial EXCEPT !.w = SerialEnsure(serial.w, user_id).w]

\* /admin_user <user_id>: refused unless is_admin(user.id); then
\* ensure_internal_wallet(target_id, None)
admin_user_command(p) ==
    /\ pc[p] = "idle" /\ budget > 0
    /\ \E user \in Users, target_id \in Owners :
          /\ op' = [op EXCEPT ![p] = [kind |-> "admin_user", user |-> user,
                                      user_id |-> target_id, username |-> NoName]]
          /\ IF ~is_admin(user)
             THEN /\ pc' = [pc EXCEPT ![p] = "done"]
                  /\ result' = [result EXCEPT ![p] = "not_admin"]
                  /\ serial' = [serial EXCEPT !.result[p] = "not_admin"]
                  /\ UNCHANGED <<wallets, ledger, positions, wallet_seq, tx, locks>>
             ELSE ViewEnsure(p, target_id, NoName)
    /\ budget' = budget - 1
    /\ UNCHANGED <<position_seq, loc>>
    /\ UNCHANGED issuance
    /\ UNCHANGED telegram

\* /portfolio: ensure_internal_wallet(user.id, user.username or None)
portfolio_command(p) ==
    /\ pc[p] = "idle" /\ budget > 0
    /\ \E user_id \in Owners, username \in Names :
          /\ op' = [op EXCEPT ![p] = [kind |-> "portfolio", user_id |-> user_id,
                                      username |-> username]]
          /\ ViewEnsure(p, user_id, username)
    /\ budget' = budget - 1
    /\ UNCHANGED <<position_seq, loc>>
    /\ UNCHANGED issuance
    /\ UNCHANGED telegram

\* overview = get_wallet_overview(user_id) or {}: the committed row of the
\* user, read in a transaction of its own
get_wallet_overview(p) ==
    /\ pc[p] = "v_overview"
    /\ LET row == wallets[op[p].user_id]
       IN loc' = [loc EXCEPT ![p].wallet_id = IF row.exists THEN row.id ELSE 0,
                             ![p].balance = IF row.exists THEN row.balance ELSE 0]
    /\ pc' = [pc EXCEPT ![p] = "v_stakes"]
    /\ UNCHANGED <<wallets, ledger, positions, wallet_seq, position_seq, op, tx,
                   locks, result, serial, budget>>
    /\ UNCHANGED issuance
    /\ UNCHANGED telegram

\* stakes = get_user_stakes(user_id) or [], read in a third transaction, and
\* the totals the handler shows (total_expected in portfolio_command only)
get_user_stakes(p) ==
    /\ pc[p] = "v_stakes"
    /\ LET stakes == SelectStakes(positions, op[p].user_id)
       IN loc' = [loc EXCEPT ![p].stakes = [i \in 1..Len(stakes) |-> stakes[i].id],
                             ![p].total_staked = TotalStaked(stakes),
                             ![p].total_expected =
                                 IF op[p].kind = "portfolio" THEN TotalExpected(stakes)
                                 ELSE 0]
    /\ pc' = [pc EXCEPT ![p] = "done"]
    /\ result' = [result EXCEPT ![p] = "ok"]
    /\ serial' = [serial EXCEPT !.result[p] = "ok"]
    /\ UNCHANGED <<wallets, ledger, positions, wallet_seq, position_seq, op, tx,
                   locks, budget>>
    /\ UNCHANGED issuance
    /\ UNCHANGED telegram

\* ------------------------------------------- SLH/admin_tools.py
\* the names db.py defines that the operations of the model import
db_names == {"db_cursor", "log_payment", "update_payment_status", "has_approved_payment"}

\* from db import db_cursor, get_payments_stats
admin_tools_imports == {"db_cursor", "get_payments_stats"}

\* an imported name that the module does not define
ImportError(names, module_names) == ~(names \subseteq module_names)

\* db_cursor() yields the pair (conn, cur), or (None, None) without DATABASE_URL
db_cursor_yields == <<"conn", "cur">>

\* with db_cursor() as <targets>: a single target is bound to the pair
\* itself, two targets to its items
WithTarget(targets) ==
    IF Len(targets) = Len(db_cursor_yields) THEN "cursor" ELSE "tuple"

\* cur.execute(...): a tuple has no attribute execute
AttributeError(cur) == cur = "tuple"

\* s.get(key) of a row of get_user_stakes: None for a key it does not have
StakeGet(stake, key) ==
    IF key \in {"id", "amount_slh", "apy", "lock_days", "status", "total_rewards_slh"}
    THEN stake[key] ELSE 0

RECURSIVE SumStakeKey(_, _)
SumStakeKey(stakes, key) ==
    IF stakes = <<>> THEN 0
    ELSE StakeGet(Head(stakes), key) + SumStakeKey(Tail(stakes), key)

\* the active rows of stakes, in their order
RECURSIVE ActiveStakes(_)
ActiveStakes(stakes) ==
    IF stakes = <<>> THEN <<>>
    ELSE (IF Head(stakes).status = "active" THEN <<Head(stakes)>> ELSE <<>>)
         \o ActiveStakes(Tail(stakes))

\* what a call of a function of admin_tools gives: the exception that
\* leaves it, or the values it returns
AdminSnapshot(raised, balance, count, staked) ==
    [raised |-> raised, balance |-> balance, count |-> count, staked |-> staked]

\* get_admin_user_snapshot(user_id)
AdminUserSnapshot(user_id) ==
    IF ImportError(admin_tools_imports, db_names)
    THEN AdminSnapshot("ImportError", 0, 0, 0)
    ELSE IF AttributeError(WithTarget(<<"cur">>))
    THEN AdminSnapshot("AttributeError", 0, 0, 0)
    ELSE LET row == wallets[user_id]
             active == ActiveStakes(SelectStakes(positions, user_id))
         IN AdminSnapshot("none", IF row.exists THEN row.balance ELSE 0,
                          Len(active), SumStakeKey(active, "principal_slh"))

\* get_admin_wallet_snapshot(): get_payments_stats() and the two sums
AdminWalletSnapshot ==
    IF ImportError(admin_tools_imports, db_names)
    THEN AdminSnapshot("ImportError", 0, 0, 0)
    ELSE IF AttributeError(WithTarget(<<"cur">>))
    THEN AdminSnapshot("AttributeError", 0, 0, 0)
    ELSE AdminSnapshot("UndefinedColumn", 0, 0, 0)

\* a call of a function of admin_tools: snap is what it gives; the SELECTs
\* are never sent, the exception leaves the function (db_cursor rolls back
\* and re-raises) and nothing is written
AdminToolsCall(p, call, snap) ==
    /\ op' = [op EXCEPT ![p] = call]
    /\ loc' = [loc EXCEPT ![p].balance = snap.balance,
                          ![p].stakes = [i \in 1..snap.count |-> 0],
                          ![p].total_staked = snap.staked,
                          ![p].mint_error = snap.raised]
    /\ pc' = [pc EXCEPT ![p] = "done"]
    /\ result' = [result EXCEPT ![p] = IF snap.raised = "none" THEN "ok" ELSE "exception"]
    /\ serial' = [serial EXCEPT !.result[p] = result'[p]]
    /\ budget' = budget - 1
    /\ UNCHANGED <<wallets, ledger, positions, wallet_seq, position_seq, tx, locks>>
    /\ UNCHANGED issuance

get_admin_user_snapshot(p) ==
    /\ pc[p] = "idle" /\ budget > 0
    /\ \E user_id \in Owners, available \in BOOLEAN :
          AdminToolsCall(p, [kind |-> "user_snapshot", user_id |-> user_id,
                             available |-> available],
                         AdminUserSnapshot(user_id))
    /\ UNCHANGED telegram

get_admin_wallet_snapshot(p) ==
    /\ pc[p] = "idle" /\ budget > 0
    /\ \E available \in BOOLEAN :
          AdminToolsCall(p, [kind |-> "wallet_snapshot", available |-> available],
                         AdminWalletSnapshot)
    /\ UNCHANGED telegram

\* /reject <user_id> <reason>: refused unless is_admin(user.id); then
\* update_payment_status(target_id, "rejected", reason), the UPDATE of the
\* latest payment of the user, if there is one, and the two messages
reject_command(p) ==
    /\ pc[p] = "idle" /\ budget > 0
    /\ \E user \in Users, target_id \in Owners :
          /\ op' = [op EXCEPT ![p] = [kind |-> "reject", user |-> user,
                                      user_id |-> target_id]]
          /\ IF ~is_admin(user)
             THEN /\ result' = [result EXCEPT ![p] = "not_admin"]
                  /\ UNCHANGED payments
             ELSE /\ result' = [result EXCEPT ![p] = "ok"]
                  /\ payments' = [payments EXCEPT ![target_id] =
                                     IF @ = NoPayment THEN @ ELSE "rejected"]
    /\ serial' = [serial EXCEPT !.result[p] = result'[p]]
    /\ pc' = [pc EXCEPT ![p] = "done"]
    /\ budget' = budget - 1
    /\ UNCHANGED <<wallets, ledger, positions, wallet_seq, position_seq, loc, tx,
                   locks, cfg, token_price_nis>>
    /\ UNCHANGED telegram

\* log_payment(user_id, username, pay_method): INSERT of a 'pending' payment
log_payment(p) ==
    /\ pc[p] = "idle" /\ budget > 0
    /\ \E user_id \in Owners :
          /\ op' = [op EXCEPT ![p] = [kind |-> "log_payment", user_id |-> user_id]]
          /\ payments' = [payments EXCEPT ![user_id] = "pending"]
    /\ pc' = [pc EXCEPT ![p] = "done"]
    /\ result' = [result EXCEPT ![p] = "ok"]
    /\ serial' = [serial EXCEPT !.result[p] = "ok"]
    /\ budget' = budget - 1
    /\ UNCHANGED <<wallets, ledger, positions, wallet_seq, position_seq, loc, tx,
                   locks, cfg, token_price_nis>>
    /\ UNCHANGED telegram

\* ------------------------------------- Telegram application managers
\* no Application object exists and nothing has been done with one
NoApp == [created |-> 0, handlers |-> 0, initialize |-> 0, start |-> 0]

NoTask == [pc |-> "idle", app |-> 0]

\* the class attributes as the class statements set them
InitManagers ==
    /\ manager = [instance |-> FALSE, initialized |-> FALSE, started |-> FALSE]
    /\ app = NoApp
    /\ bot_manager = [app |-> 0, initialized |-> FALSE]
    /\ bot_app = NoApp
    /\ task = [t \in Procs |-> NoTask]

\* TelegramAppManager.get_app() of main.py (with BOT_TOKEN set): the
\* Application is built if _instance is None
GetApp(m, a) ==
    IF m.instance THEN [manager |-> m, app |-> a]
    ELSE [manager |-> [m EXCEPT !.instance = TRUE],
          app |-> [a EXCEPT !.created = @ + 1]]

\* TelegramAppManager.initialize_handlers(): returns at once if
\* _initialized, else get_app(), add_handler for each handler, _initialized = True
InitializeHandlers(m, a) ==
    IF m.initialized THEN [manager |-> m, app |-> a]
    ELSE LET got == GetApp(m, a)
         IN [manager |-> [got.manager EXCEPT !.initialized = TRUE],
             app |-> [got.app EXCEPT !.handlers = @ + 1]]

\* a call of TelegramAppManager.initialize_handlers()
initialize_handlers(t) ==
    /\ task[t].pc = "idle" /\ budget > 0
    /\ LET done == InitializeHandlers(manager, app)
       IN manager' = done.manager /\ app' = done.app
    /\ budget' = budget - 1
    /\ UNCHANGED <<bot_manager, bot_app, task>>
    /\ UNCHANGED store

\* POST /webhook: initialize_handlers() and get_app(), then the update is
\* processed
telegram_webhook(t) ==
    /\ task[t].pc = "idle" /\ budget > 0
    /\ LET handlers == InitializeHandlers(manager, app)
           got == GetApp(handlers.manager, handlers.app)
       IN manager' = got.manager /\ app' = got.app
    /\ task' = [task EXCEPT ![t].pc = "await_process_update"]
    /\ budget' = budget - 1
    /\ UNCHANGED <<bot_manager, bot_app>>
    /\ UNCHANGED store

\* await app_instance.process_update(ptb_update) returns
process_update(t) ==
    /\ task[t].pc = "await_process_update"
    /\ task' = [task EXCEPT ![t] = NoTask]
    /\ UNCHANGED <<manager, app, bot_manager, bot_app, budget>>
    /\ UNCHANGED store

\* TelegramAppManager.start() of main.py up to its first await:
\* initialize_handlers(), get_app(), and if not _started the call of
\* app_instance.initialize()
start(t) ==
    /\ task[t].pc = "idle" /\ budget > 0
    /\ LET handlers == InitializeHandlers(manager, app)
           got == GetApp(handlers.manager, handlers.app)
       IN /\ manager' = got.manager
          /\ IF got.manager.started
             THEN /\ app' = got.app
                  /\ UNCHANGED task
             ELSE /\ app' = [got.app EXCEPT !.initialize = @ + 1]
                  /\ task' = [task EXCEPT ![t].pc = "await_initialize"]
    /\ budget' = budget - 1
    /\ UNCHANGED <<bot_manager, bot_app>>
    /\ UNCHANGED store

\* await app_instance.initialize() returns; await app_instance.start()
start_app_start(t) ==
    /\ task[t].pc = "await_initialize"
    /\ app' = [app EXCEPT !.start = @ + 1]
    /\ task' = [task EXCEPT ![t].pc = "await_start"]
    /\ UNCHANGED <<manager, bot_manager, bot_app, budget>>
    /\ UNCHANGED store

\* await app_instance.start() returns; await bot.set_webhook(WEBHOOK_URL),
\* if one is configured
start_set_webhook(t) ==
    /\ task[t].pc = "await_start"
    /\ task' = [task EXCEPT ![t].pc = "await_set_webhook"]
    /\ UNCHANGED <<manager, app, bot_manager, bot_app, budget>>
    /\ UNCHANGED store

\* set_webhook returns or raises (the error is logged); _started = True
start_set_started(t) ==
    /\ task[t].pc = "await_set_webhook"
    /\ manager' = [manager EXCEPT !.started = TRUE]
    /\ task' = [task EXCEPT ![t] = NoTask]
    /\ UNCHANGED <<app, bot_manager, bot_app, budget>>
    /\ UNCHANGED store

\* TelegramAppManager.start() of bot/telegram_manager.py up to its first
\* await: returns at once if _app is set and _initialized; else builds an
\* Application, registers the handlers on it and calls app.initialize()
bot_start(t) ==
    /\ task[t].pc = "idle" /\ budget > 0
    /\ IF bot_manager.app # 0 /\ bot_manager.initialized
       THEN UNCHANGED <<bot_app, task>>
       ELSE /\ bot_app' = [bot_app EXCEPT !.created = @ + 1, !.handlers = @ + 1,
                                          !.initialize = @ + 1]
            /\ task' = [task EXCEPT ![t] = [pc |-> "bot_await_initialize",
                                            app |-> bot_app.created + 1]]
    /\ budget' = budget - 1
    /\ UNCHANGED <<manager, app, bot_manager>>
    /\ UNCHANGED store

\* await app.initialize() returns; await app.start()
bot_start_app_start(t) ==
    /\ task[t].pc = "bot_await_initialize"
    /\ bot_app' = [bot_app EXCEPT !.start = @ + 1]
    /\ task' = [task EXCEPT ![t].pc = "bot_await_start"]
    /\ UNCHANGED <<manager, app, bot_manager, budget>>
    /\ UNCHANGED store

\* await app.start() returns; cls._app = app, cls._initialized = True
bot_start_set_app(t) ==
    /\ task[t].pc = "bot_await_start"
    /\ bot_manager' = [app |-> task[t].app, initialized |-> TRUE]
    /\ task' = [task EXCEPT ![t] = NoTask]
    /\ UNCHANGED <<manager, app, bot_app, budget>>
    /\ UNCHANGED store

\* ------------------------------------------------- failures and returning
\* the user_ids whose lock the next statement of p needs
Needs(p) ==
    CASE pc[p] = "e_upsert" -> {op[p].user_id}
      [] pc[p] = "a_ensure" -> {op[p].user_id}
      [] pc[p] = "c_insert" -> InsertNeeds(p, op[p].user_id)
      [] pc[p] = "c_update" -> {op[p].user_id}
      [] pc[p] = "t_insert_from" -> InsertNeeds(p, op[p].from_user_id)
      [] pc[p] = "t_insert_to" -> InsertNeeds(p, op[p].to_user_id)
      [] pc[p] = "t_select_from" -> {op[p].from_user_id}
      [] pc[p] = "t_select_to" -> {op[p].to_user_id}
      [] pc[p] = "s_select" -> IF wallets[op[p].user_id].exists THEN {op[p].user_id} ELSE {}
      [] OTHER -> {}

Waiting(p) == \E o \in Needs(p) : LockedByOther(p, o)

InTransaction(p) == pc[p] \notin {"idle", "done", "a_mint", "a_notify", "ac_mint"}

\* the writes the transaction of p can have made when one of the statements
\* of its next step raises (a step that still waits for a lock has made none
\* of its own writes)
PartialWrites(p) ==
    IF Waiting(p) THEN {tx[p]}
    ELSE CASE pc[p] = "e_upsert" -> {tx[p], EnsureWrites(p)}
           [] pc[p] = "a_ensure" -> {tx[p], EnsureWrites(p)}
           [] pc[p] = "c_update" -> {CreditWrites(p, k) : k \in 0..2}
           [] pc[p] = "t_select_to" -> {TransferWrites(p, k) : k \in 0..4}
           [] pc[p] = "s_update" -> {StakeWrites(p, k) : k \in 0..3}
           [] OTHER -> {tx[p]}

\* the number of row versions, ledger rows and positions in the writes t
WriteCount(t) ==
    Cardinality({o \in Owners : t.rows[o] # NoRow}) + Len(t.ledger) + Len(t.positions)

\* a statement raises (connection lost, deadlock_detected, ...): db_cursor
\* rolls the transaction back and re-raises; loc.discarded remembers how many
\* writes the transaction had made
db_cursor_rollback(p) ==
    /\ InTransaction(p)
    /\ \E t \in PartialWrites(p) :
          /\ Rollback(p, t)
          /\ loc' = [loc EXCEPT ![p].discarded = WriteCount(t)]
    /\ pc' = [pc EXCEPT ![p] = "done"]
    /\ result' = [result EXCEPT ![p] = "exception"]
    /\ serial' = [serial EXCEPT !.result[p] = "exception"]
    /\ UNCHANGED <<wallet_seq, position_seq, op, budget>>
    /\ UNCHANGED issuance
    /\ UNCHANGED telegram

\* the caller has the result; the process is free for the next call
return(p) ==
    /\ pc[p] = "done"
    /\ pc' = [pc EXCEPT ![p] = "idle"]
    /\ op' = [op EXCEPT ![p] = NoOp]
    /\ loc' = [loc EXCEPT ![p] = NoLoc]
    /\ result' = [result EXCEPT ![p] = "none"]
    /\ serial' = [serial EXCEPT !.result[p] = "none"]
    /\ UNCHANGED <<wallets, ledger, positions, wallet_seq, position_seq, tx, locks, budget>>
    /\ UNCHANGED issuance
    /\ UNCHANGED telegram

\* ----------------------------------------------------------- specification
InitProcs ==
    /\ pc = [p \in Procs |-> "idle"]
    /\ op = [p \in Procs |-> NoOp]
    /\ loc = [p \in Procs |-> NoLoc]
    /\ tx = [p \in Procs |-> NoTx]
    /\ locks = [p \in Procs |-> {}]
    /\ result = [p \in Procs |-> "none"]

\* no payment is logged, the configuration file does not exist
InitIssuance(price_nis, token_price) ==
    /\ cfg = BaseConfig(price_nis)
    /\ token_price_nis = token_price
    /\ payments = [o \in Owners |-> NoPayment]

Init ==
    /\ wallets = [o \in Owners |-> NoWallet]
    /\ ledger = <<>>
    /\ positions = <<>>
    /\ wallet_seq = 0
    /\ position_seq = 0
    /\ InitProcs
    /\ serial = [w |-> SerialView(wallets), result |-> [p \in Procs |-> "none"]]
    /\ budget = MaxOps
    /\ InitIssuance(DEFAULT_SLH_PRICE, SLH_TOKEN_PRICE_NIS)
    /\ InitManagers

Next ==
    \/ \E p \in Procs : ensure_begin(p)
    \/ \E p \in Procs : ensure_upsert(p)
    \/ \E p \in Procs : credit_begin(p)
    \/ \E p \in Procs : credit_insert(p)
    \/ \E p \in Procs : credit_update(p)
    \/ \E p \in Procs : transfer_begin(p)
    \/ \E p \in Procs : transfer_insert_from(p)
    \/ \E p \in Procs : transfer_insert_to(p)
    \/ \E p \in Procs : transfer_select_from(p)
    \/ \E p \in Procs : transfer_select_to(p)
    \/ \E p \in Procs : stake_begin(p)
    \/ \E p \in Procs : stake_select(p)
    \/ \E p \in Procs : stake_update(p)
    \/ \E p \in Procs : approve_command(p)
    \/ \E p \in Procs : update_payment_status(p)
    \/ \E p \in Procs : approve_ensure_internal_wallet(p)
    \/ \E p \in Procs : approve_auto_mint(p)
    \/ \E p \in Procs : approve_send_message(p)
    \/ \E p \in Procs : set_price_command(p)
    \/ \E p \in Procs : credit_wallet_from_entry_price(p)
    \/ \E p \in Procs : admin_credit_command(p)
    \/ \E p \in Procs : admin_credit_mint(p)
    \/ \E p \in Procs : admin_user_command(p)
    \/ \E p \in Procs : portfolio_command(p)
    \/ \E p \in Procs : get_wallet_overview(p)
    \/ \E p \in Procs : get_user_stakes(p)
    \/ \E p \in Procs : get_admin_user_snapshot(p)
    \/ \E p \in Procs : get_admin_wallet_snapshot(p)
    \/ \E p \in Procs : reject_command(p)
    \/ \E p \in Procs : log_payment(p)
    \/ \E p \in Procs : db_cursor_rollback(p)
    \/ \E p \in Procs : return(p)

Spec == Init /\ [][Next]_vars

\* a store in which every owner has a wallet, funded by one credit_wallet of
\* AmountUnit or left empty by ensure_internal_wallet; one call per process
RECURSIVE FundingLedger(_, _)
FundingLedger(w, o) ==
    IF o > NumOwners THEN <<>>
    ELSE (IF w[o].balance > 0
          THEN <<LedgerEntry(w[o].id, w[o].balance, "credit", 0)>> ELSE <<>>)
         \o FundingLedger(w, o + 1)

InitFundedWith(balances) ==
    /\ wallets = [o \in Owners |-> [exists |-> TRUE, id |-> o, username |-> NoName,
                                     balance |-> balances[o]]]
    /\ ledger = FundingLedger(wallets, 1)
    /\ positions = <<>>
    /\ wallet_seq = NumOwners
    /\ position_seq = 0
    /\ InitProcs
    /\ serial = [w |-> SerialView(wallets), result |-> [p \in Procs |-> "none"]]
    /\ budget = NumProcs
    /\ InitIssuance(DEFAULT_SLH_PRICE, SLH_TOKEN_PRICE_NIS)
    /\ InitManagers

InitFunded == \E balances \in [Owners -> {0, AmountUnit}] : InitFundedWith(balances)

SpecFunded == InitFunded /\ [][Next]_vars

\* owner 1 holds AmountUnit, every other owner holds nothing
InitCrossing == InitFundedWith([o \in Owners |-> IF o = 1 THEN AmountUnit ELSE 0])

SpecCrossing == InitCrossing /\ [][Next]_vars

\* an empty store, one call per process, and the prices of the environment
\* configured positive or zero (SLH_NIS_PRICE, SLH_TOKEN_PRICE_NIS)
InitPrices ==
    /\ wallets = [o \in Owners |-> NoWallet]
    /\ ledger = <<>>
    /\ positions = <<>>
    /\ wallet_seq = 0
    /\ position_seq = 0
    /\ InitProcs
    /\ serial = [w |-> SerialView(wallets), result |-> [p \in Procs |-> "none"]]
    /\ budget = NumProcs
    /\ \E price_nis \in {0, DEFAULT_SLH_PRICE}, token_price \in {0, SLH_TOKEN_PRICE_NIS} :
          InitIssuance(price_nis, token_price)
    /\ InitManagers

SpecPrices == InitPrices /\ [][Next]_vars

\* the coroutines of the event loop that use the application managers
NextTelegram ==
    \/ \E t \in Procs : initialize_handlers(t)
    \/ \E t \in Procs : telegram_webhook(t)
    \/ \E t \in Procs : process_update(t)
    \/ \E t \in Procs : start(t)
    \/ \E t \in Procs : start_app_start(t)
    \/ \E t \in Procs : start_set_webhook(t)
    \/ \E t \in Procs : start_set_started(t)
    \/ \E t \in Procs : bot_start(t)
    \/ \E t \in Procs : bot_start_app_start(t)
    \/ \E t \in Procs : bot_start_set_app(t)

SpecTelegram == Init /\ [][NextTelegram]_vars

\* ------------------------------------------------------------------ claims
Debits(o, owner) ==
    \/ o.kind = "transfer" /\ o.from_user_id = owner
    \/ o.kind = "stake" /\ o.user_id = owner

\* C1: in every committed state each wallet's balance equals the sum of the
\* deltas of the ledger entries recorded for that wallet
C1_BalanceIsLedgerSum ==
    \A o \in Owners :
        wallets[o].exists => wallets[o].balance = SumChanges(ledger, wallets[o].id)

\* C2: no committed wallet balance is ever negative, whatever the
\* interleaving of transfers, stake openings and credits
C2_NoNegativeBalance == \A o \in Owners : wallets[o].balance >= 0

\* two calls debiting the same wallet have both returned, one paid and the
\* other was refused, and the wallet is empty
C2_Witness ==
    \E p \in Procs, q \in Procs, o \in Owners :
        /\ p # q
        /\ pc[p] = "done" /\ pc[q] = "done"
        /\ Debits(op[p], o) /\ Debits(op[q], o)
        /\ result[p] = "ok" /\ result[q] = "insufficient"
        /\ wallets[o].exists /\ wallets[o].balance = 0

\* C3: no lost updates: the committed balances are those of the same calls
\* run one at a time in the order of their commits, and every call returned
\* what it returns in that serial run (so two debits that together exceed
\* the balance never both succeed)
C3_SerialEquivalence ==
    /\ SerialView(wallets) = serial.w
    /\ \A p \in Procs : pc[p] = "done" => result[p] = serial.result[p]

\* a transfer holds the lock of its sender while another call that debits
\* the same wallet waits for it, and the wallet cannot pay both
C3_Witness ==
    \E p \in Procs, q \in Procs :
        /\ p # q
        /\ pc[p] = "t_select_to" /\ Waiting(q)
        /\ Debits(op[q], op[p].from_user_id)
        /\ op[p].amount_slh + op[q].amount_slh > wallets[op[p].from_user_id].balance

IsTransfer(p, from, to, amount) ==
    op[p] = [kind |-> "transfer", from_user_id |-> from, to_user_id |-> to,
             amount_slh |-> amount]

\* the step with which process p leaves the statement at label
Leaves(p, label) == pc[p] = label /\ pc'[p] # label

\* C4: a transfer of an amount > 0 that finds the sender's balance below the
\* amount returns the insufficient-funds failure (unless the store raises,
\* and then it returns nothing) and leaves the balances of sender and
\* receiver as they were
C4_InsufficientFundsRefused ==
    [][\A p \in Procs :
          (/\ Leaves(p, "t_select_from")
           /\ op[p].amount_slh > 0
           /\ Row(p, op[p].from_user_id).balance < op[p].amount_slh)
          => /\ pc'[p] = "done"
             /\ result'[p] \in {"insufficient", "exception"}
             /\ result'[p] = "exception" => loc'[p].discarded = WriteCount(tx[p])
             /\ \A o \in {op[p].from_user_id, op[p].to_user_id} :
                   wallets'[o].balance = wallets[o].balance]_vars

\* a transfer was refused for insufficient funds, sender and receiver being
\* different existing wallets
C4_Witness ==
    \E p \in Procs :
        /\ pc[p] = "done" /\ op[p].kind = "transfer" /\ result[p] = "insufficient"
        /\ op[p].from_user_id # op[p].to_user_id
        /\ wallets[op[p].from_user_id].balance < op[p].amount_slh
        /\ wallets[op[p].to_user_id].balance > 0

\* C5: from A = 10, B = 0 the concurrent transfer(A->B, 10) and
\* transfer(B->A, 10) end in {A=10, B=0} or {A=0, B=10}
C5_CrossingOutcome ==
    (/\ budget = NumProcs - 2
     /\ pc[1] = "done" /\ pc[2] = "done"
     /\ IsTransfer(1, 1, 2, AmountUnit) /\ IsTransfer(2, 2, 1, AmountUnit))
    => \/ wallets[1].balance = AmountUnit /\ wallets[2].balance = 0
       \/ wallets[1].balance = 0 /\ wallets[2].balance = AmountUnit

\* both crossing transfers have returned, A->B paid and B->A was refused
C5_Witness ==
    /\ budget = NumProcs - 2
    /\ pc[1] = "done" /\ pc[2] = "done"
    /\ IsTransfer(1, 1, 2, AmountUnit) /\ IsTransfer(2, 2, 1, AmountUnit)
    /\ result[1] = "ok" /\ result[2] = "insufficient"
    /\ wallets[1].balance = 0 /\ wallets[2].balance = AmountUnit

\* C6: a transfer takes its two wallet locks in one global order (ascending
\* wallet id) whichever wallet is the sender: a transfer that holds its
\* first lock and is about to take the second holds the wallet with the
\* smaller id
C6_LockOrderAscending ==
    \A p \in Procs :
        (pc[p] = "t_select_to" /\ op[p].from_user_id # op[p].to_user_id)
        => Row(p, op[p].from_user_id).id < Row(p, op[p].to_user_id).id

C8_TransferEffect ==
    [][\A p \in Procs :
          (Leaves(p, "t_select_to") /\ result'[p] = "ok")
          => LET from == op[p].from_user_id
                 to == op[p].to_user_id
                 amount == op[p].amount_slh
             IN /\ \A o \in Owners :
                      wallets'[o].balance = wallets[o].balance
                          - (IF o = from THEN amount ELSE 0)
                          + (IF o = to THEN amount ELSE 0)
                /\ \A o \in Owners \ {from, to} : wallets'[o] = wallets[o]
                /\ ledger' = ledger \o
                      <<LedgerEntry(wallets'[from].id, 0 - amount, "transfer", to),
                        LedgerEntry(wallets'[to].id, amount, "transfer", from)>>
                /\ positions' = positions]_vars

\* C9: a call that fails after it began writing commits none of its writes,
\* and a step changes a committed balance exactly when it appends a ledger
\* entry of that wallet
C9_AtomicUnit ==
    [][/\ (\E p \in Procs : result'[p] = "exception" /\ result[p] # "exception")
          => <<wallets, ledger, positions>>' = <<wallets, ledger, positions>>
       /\ Len(ledger') >= Len(ledger)
       /\ SubSeq(ledger', 1, Len(ledger)) = ledger
       /\ \A o \in Owners :
             (wallets'[o].balance # wallets[o].balance)
             <=> (\E i \in (Len(ledger) + 1)..Len(ledger') :
                     ledger'[i].wallet_id = wallets'[o].id)]_vars

\* a transfer failed after its first UPDATE or later: writes were discarded
\* and the committed balances still match the ledger
C9_Witness ==
    \E p \in Procs :
        /\ pc[p] = "done" /\ result[p] = "exception" /\ op[p].kind = "transfer"
        /\ loc[p].discarded > 0
        /\ wallets[op[p].from_user_id].exists
        /\ wallets[op[p].from_user_id].balance >= op[p].amount_slh
        /\ C1_BalanceIsLedgerSum

\* C10: a transfer refused for insufficient funds leaves the set of wallets,
\* every balance and the ledger as they were before the call
C10_RefusalHasNoEffect ==
    [][\A p \in Procs :
          (Leaves(p, "t_select_from") /\ result'[p] = "insufficient")
          => <<wallets, ledger, positions>>' = <<wallets, ledger, positions>>]_vars

\* C11: a transfer whose sender has no wallet fails with the unknown-wallet
\* failure (or the store raises) and creates no wallet for the sender, and a
\* successful transfer leaves the receiver with a wallet, created by the
\* call if there was none
C11_SenderMustExist ==
    [][\A p \in Procs :
          /\ (Leaves(p, "t_select_from") /\ ~wallets[op[p].from_user_id].exists)
             => /\ result'[p] \in {"no_wallet", "exception"}
                /\ ~wallets'[op[p].from_user_id].exists
          /\ (Leaves(p, "t_select_to") /\ result'[p] = "ok")
             => wallets'[op[p].to_user_id].exists]_vars

IsStake(o) == o.kind = "stake"

\* C12: a transfer or a stake opening with an amount <= 0 returns the
\* invalid-amount failure in its first step, without a statement sent to
\* the store: no row, no sequence value, no lock and no uncommitted write
\* changes
C12_InvalidAmountRejected ==
    [][\A p \in Procs :
          (/\ pc[p] = "idle"
           /\ op'[p].kind \in {"transfer", "stake"}
           /\ op'[p].amount_slh <= 0)
          => /\ pc'[p] = "done"
             /\ result'[p] = "invalid_amount"
             /\ UNCHANGED <<wallets, ledger, positions, wallet_seq, position_seq,
                            tx, locks>>]_vars

\* a stake opening of amount 0 was refused on a wallet that holds funds
C12_Witness ==
    \E p \in Procs :
        /\ pc[p] = "done" /\ IsStake(op[p]) /\ op[p].amount_slh <= 0
        /\ result[p] = "invalid_amount"
        /\ wallets[op[p].user_id].balance > 0

\* C13: a stake opening of p > 0 (rate > 0) on a wallet with balance b >= p
\* succeeds unless the store raises, leaves b - p, appends exactly one
\* active position of principal p and exactly one ledger entry of -p; with
\* b < p it returns the insufficient-funds failure and changes nothing
C13_StakeOpen ==
    [][\A p \in Procs :
          LET o == op[p].user_id
              amount == op[p].amount_slh
          IN /\ (Leaves(p, "s_select") /\ wallets[o].exists
                    /\ wallets[o].balance >= amount)
                => \/ pc'[p] = "s_update"
                   \/ result'[p] = "exception"
             /\ (Leaves(p, "s_select") /\ wallets[o].exists
                    /\ wallets[o].balance < amount)
                => /\ result'[p] \in {"insufficient", "exception"}
                   /\ UNCHANGED <<wallets, ledger, positions>>
             /\ Leaves(p, "s_update")
                => /\ result'[p] \in {"ok", "exception"}
                   /\ result'[p] = "ok"
                      => /\ wallets' = [wallets EXCEPT ![o].balance = @ - amount]
                         /\ wallets'[o].balance >= 0
                         /\ Len(positions') = Len(positions) + 1
                         /\ SubSeq(positions', 1, Len(positions)) = positions
                         /\ positions'[Len(positions')].status = "active"
                         /\ positions'[Len(positions')].amount_slh = amount
                         /\ positions'[Len(positions')].user_id = o
                         /\ ledger' = Append(ledger,
                               LedgerEntry(wallets[o].id, 0 - amount, "stake",
                                           positions'[Len(positions')].id))]_vars

\* a stake opening has succeeded and left the wallet with its balance less
\* the principal
C13_Witness ==
    \E p \in Procs :
        /\ pc[p] = "done" /\ IsStake(op[p]) /\ result[p] = "ok"
        /\ Len(positions) = 1
        /\ positions[1].amount_slh = op[p].amount_slh
        /\ wallets[op[p].user_id].balance = loc[p].balance - op[p].amount_slh

\* C14: a stake opening with lock_days <= 0 (amount and rate valid) is
\* refused: none of its steps returns success, creates a position or
\* changes a balance
C14_LockDaysValidated ==
    [][\A p \in Procs :
          (/\ IsStake(op[p]) /\ pc[p] # pc'[p]
           /\ op[p].amount_slh > 0 /\ op[p].apy > 0 /\ op[p].lock_days <= 0)
          => /\ result'[p] # "ok"
             /\ UNCHANGED <<wallets, positions>>]_vars

\* C15: every stake position is active, has no closing time and has
\* accrued rewards 0
C15_PositionsStayActive ==
    \A i \in 1..Len(positions) :
        /\ positions[i].status = "active"
        /\ positions[i].closed_at = FALSE
        /\ positions[i].total_rewards_slh = 0

\* a position exists and every call of the run has returned
C15_Witness ==
    /\ Len(positions) > 0
    /\ budget = 0
    /\ \A p \in Procs : pc[p] = "idle"

\* the step with which process p starts credit_wallet_from_entry_price
StartsEntryCredit(p) ==
    /\ pc[p] = "idle"
    /\ op'[p].kind = "credit"
    /\ op'[p].ref_type = "entry_payment"

\* C16: the mint of an approved entry payment, run while the live price p
\* and the entry amount e are > 0, credits the owner's wallet by e / p
\* rounded to 4 places and appends exactly one ledger entry with that delta
C16_EntryMintCredits ==
    [][\A p \in Procs :
          (/\ Leaves(p, "a_mint")
           /\ cfg.slh_nis_price > 0 /\ cfg.nis_entry_amount > 0)
          => LET o == op[p].user_id
                 amount == RoundHalfEven(cfg.nis_entry_amount * Places4,
                                         cfg.slh_nis_price)
             IN /\ wallets'[o].balance = wallets[o].balance + amount
                /\ Len(ledger') = Len(ledger) + 1
                /\ ledger'[Len(ledger')].wallet_id = wallets[o].id
                /\ ledger'[Len(ledger')].change_slh = amount]_vars

\* C17: every mint computes its amount with the price that is live when it
\* runs, the one the last completed /set_price stored: the mint of an
\* approval as well as the credit of an entry price
C17_LivePriceUsed ==
    [][\A p \in Procs :
          /\ Leaves(p, "a_mint")
             => loc'[p].amount_slh =
                   compute_slh_for_entry(cfg.slh_nis_price, cfg.nis_entry_amount)
          /\ StartsEntryCredit(p)
             => op'[p].amount_slh =
                   compute_slh_for_entry(cfg.slh_nis_price, SLH_ENTRY_PRICE_NIS)]_vars

\* C18: a mint with the price configured <= 0 (or a computed amount <= 0)
\* is a silent no-op: no balance, no ledger entry and no total changes and
\* no exception reaches the caller
C18_ZeroPriceNoOp ==
    [][\A p \in Procs :
          /\ (/\ Leaves(p, "a_mint")
              /\ compute_slh_for_entry(cfg.slh_nis_price, cfg.nis_entry_amount) <= 0)
             => /\ pc'[p] = "a_notify"
                /\ result'[p] \notin {"value_error", "exception"}
                /\ UNCHANGED <<wallets, ledger, cfg>>
          /\ (StartsEntryCredit(p) /\ token_price_nis <= 0)
             => /\ result'[p] \notin {"value_error", "exception"}
                /\ UNCHANGED <<wallets, ledger, cfg>>]_vars

\* C19: the approval never fails because of the mint: once the payment
\* status is stored and the wallet ensured, the mint step, skipped or
\* raising, leaves the payment as stored and hands over to the
\* notifications, which end the approval successfully
C19_ApprovalSurvivesMint ==
    [][\A p \in Procs :
          /\ (Leaves(p, "a_status") /\ result'[p] # "exception"
                 /\ payments[op[p].user_id] # NoPayment)
             => payments'[op[p].user_id] = "approved"
          /\ Leaves(p, "a_mint")
             => /\ pc'[p] = "a_notify"
                /\ result'[p] = "running"
                /\ payments' = payments
          /\ Leaves(p, "a_notify")
             => /\ pc'[p] = "done" /\ result'[p] = "ok"
                /\ payments' = payments]_vars

\* an approval whose mint raised TypeError has returned successfully and
\* the payment is approved
C19_Witness ==
    \E p \in Procs :
        /\ pc[p] = "done" /\ op[p].kind = "approve" /\ result[p] = "ok"
        /\ loc[p].mint_error = "TypeError" /\ loc[p].minted = 0
        /\ payments[op[p].user_id] = "approved"

\* C20: /set_price changes nothing but the price: wallets, ledger,
\* positions, payments, the entry amount and the total minted are the same
\* after the call as before it
C20_SetPriceFrame ==
    [][\A p \in Procs :
          (pc[p] = "idle" /\ op'[p].kind = "set_price")
          => /\ UNCHANGED <<wallets, ledger, positions, payments, token_price_nis>>
             /\ cfg'.nis_entry_amount = cfg.nis_entry_amount
             /\ cfg'.total_slh_minted = cfg.total_slh_minted]_vars

\* the price was changed after an entry price had been credited, and the
\* credited amount is still the wallet's balance
C20_Witness ==
    \E p \in Procs, o \in Owners :
        /\ pc[p] = "done" /\ op[p].kind = "set_price" /\ result[p] = "ok"
        /\ cfg.slh_nis_price = float(op[p].new_price)
        /\ cfg.slh_nis_price # DEFAULT_SLH_PRICE
        /\ wallets[o].exists
        /\ wallets[o].balance = mint_slh_from_payment(SLH_ENTRY_PRICE_NIS)
        /\ wallets[o].balance > 0
        /\ ledger = <<LedgerEntry(wallets[o].id, wallets[o].balance, "entry_payment", 0)>>

\* the step with which process p runs /set_price
SetsPrice(p) == pc[p] = "idle" /\ op'[p].kind = "set_price"

\* C21: the price changes only in a /set_price of an administrator with
\* new_price > 0, and a price that is positive stays positive
C21_PriceStaysPositive ==
    [][/\ cfg'.slh_nis_price # cfg.slh_nis_price
          => \E p \in Procs :
                /\ SetsPrice(p)
                /\ is_admin(op'[p].user)
                /\ op'[p].new_price.coefficient > 0
       /\ cfg.slh_nis_price > 0 => cfg'.slh_nis_price > 0]_vars

\* the sum of the deltas of the ledger entries of the given reference types
RECURSIVE SumByRefType(_, _)
SumByRefType(entries, ref_types) ==
    IF entries = <<>> THEN 0
    ELSE (IF Head(entries).ref_type \in ref_types THEN Head(entries).change_slh ELSE 0)
         + SumByRefType(Tail(entries), ref_types)

\* process p is in an entry mint or an administrator's credit
IssuanceInProgress(p) ==
    \/ pc[p] \in {"a_mint", "ac_mint"}
    \/ pc[p] \in {"c_insert", "c_update"} /\ op[p].ref_type = "entry_payment"

\* C22: with no issuance in progress, total_slh_minted is the sum of the
\* deltas of the issuance entries of the ledger, and it never decreases
C22_TotalIssuedIsLedgerSum ==
    /\ [](~(\E p \in Procs : IssuanceInProgress(p))
            => cfg.total_slh_minted = SumByRefType(ledger, {"entry_payment"}))
    /\ [][cfg'.total_slh_minted >= cfg.total_slh_minted]_vars

RECURSIVE SumBalances(_)
SumBalances(owners) ==
    IF owners = {} THEN 0
    ELSE LET o == CHOOSE x \in owners : TRUE
         IN wallets[o].balance + SumBalances(owners \ {o})

RECURSIVE ActivePrincipal(_)
ActivePrincipal(rows) ==
    IF rows = <<>> THEN 0
    ELSE (IF Head(rows).status = "active" THEN Head(rows).amount_slh ELSE 0)
         + ActivePrincipal(Tail(rows))

\* C23: in every committed state with no issuance in progress, the balances
\* of all wallets plus the principal of all active positions equal
\* total_slh_minted
C23_Conservation ==
    ~(\E p \in Procs : IssuanceInProgress(p))
        => SumBalances(Owners) + ActivePrincipal(positions) = cfg.total_slh_minted

\* process p returns from ensure_internal_wallet with a row
EnsureReturns(p) == Leaves(p, "e_upsert") /\ result'[p] = "ok"

\* C24: a wallet is never removed and keeps its id; a call of
\* ensure_internal_wallet returns the id of the one wallet of the user and
\* leaves the balance of an existing wallet and the ledger unchanged
C24_EnsureIdempotent ==
    [][/\ \A o \in Owners :
             wallets[o].exists
                 => wallets'[o].exists /\ wallets'[o].id = wallets[o].id
       /\ \A p \in Procs :
             EnsureReturns(p)
                 => LET o == op[p].user_id
                    IN /\ wallets'[o].exists
                       /\ loc'[p].wallet_id = wallets'[o].id
                       /\ wallets[o].exists => wallets'[o].balance = wallets[o].balance
                       /\ ledger' = ledger]_vars

\* two calls for the same user have returned the same id, the id of a
\* wallet that holds a balance
C24_Witness ==
    \E p, q \in Procs :
        /\ p # q
        /\ op[p].kind = "ensure" /\ op[q].kind = "ensure"
        /\ result[p] = "ok" /\ result[q] = "ok"
        /\ op[p].user_id = op[q].user_id
        /\ loc[p].wallet_id = loc[q].wallet_id
        /\ wallets[op[p].user_id].balance > 0

\* C25: the username of an existing wallet changes only from absent to a
\* supplied name: no step erases or replaces a stored name
C25_NameSetOnlyWhenAbsent ==
    [][\A o \in Owners :
          wallets[o].exists /\ wallets'[o].username # wallets[o].username
              => wallets[o].username = NoName /\ wallets'[o].username # NoName]_vars

\* C26: every step keeps the entries of the ledger, in their places and
\* unchanged; entries are only added after them
C26_LedgerAppendOnly ==
    [][/\ Len(ledger') >= Len(ledger)
       /\ SubSeq(ledger', 1, Len(ledger)) = ledger]_vars

\* the ledger holds the entries of more than one committed transaction
C26_Witness ==
    /\ Len(ledger) >= 3
    /\ \A p \in Procs : pc[p] = "idle"

\* process p takes a step of an operation of one of the given kinds
StepOf(p, kinds) == pc'[p] # pc[p] /\ op'[p].kind \in kinds

\* C27: a step of an administrator's snapshot of the system or of a user
\* leaves the wallets (their set, balances and names), the ledger, the
\* positions and the prices unchanged
C27_SnapshotsArePureReads ==
    [][\A p \in Procs :
          StepOf(p, {"admin_user", "user_snapshot", "wallet_snapshot"})
              => UNCHANGED <<wallets, ledger, positions, cfg, token_price_nis>>]_vars

\* C28: a snapshot of admin_tools returns, with zero counts and totals when
\* the store is unavailable, and raises nothing
C28_SnapshotDefaults ==
    [][\A p \in Procs :
          StepOf(p, {"user_snapshot", "wallet_snapshot"})
              => /\ result'[p] = "ok"
                 /\ ~op'[p].available
                       => /\ loc'[p].balance = 0
                          /\ loc'[p].stakes = <<>>
                          /\ loc'[p].total_staked = 0]_vars

\* C29: get_admin_user_snapshot(user_id) reports the balance of the wallet
\* of the user, the number of the user's active positions and the sum of
\* their principals
C29_UserSnapshotReport ==
    [][\A p \in Procs :
          StepOf(p, {"user_snapshot"})
              => LET o == op'[p].user_id
                     mine == {i \in 1..Len(positions) :
                                 positions[i].user_id = o /\ positions[i].status = "active"}
                 IN /\ result'[p] = "ok"
                    /\ loc'[p].balance = wallets[o].balance
                    /\ Len(loc'[p].stakes) = Cardinality(mine)
                    /\ loc'[p].total_staked
                          = ActivePrincipal(SelectSeq(positions, LAMBDA r : r.user_id = o))]_vars

\* the place of the position with the given id in the table
PositionIndex(id) == CHOOSE i \in 1..Len(positions) : positions[i].id = id

\* principal * apy * lock_days, summed over the positions of the user
RECURSIVE SumRewardTerms(_, _)
SumRewardTerms(rows, user_id) ==
    IF rows = <<>> THEN 0
    ELSE (IF Head(rows).user_id = user_id
          THEN Head(rows).amount_slh * Head(rows).apy * Head(rows).lock_days ELSE 0)
         + SumRewardTerms(Tail(rows), user_id)

\* C30: the list of a view holds exactly the positions of the user, the
\* latest first; the reward /portfolio shows is the sum over them of
\* principal * apy / 100 * lock_days / 365 (total_expected is in hundredths,
\* so both sides are multiplied by 100 * 365); reading credits nothing
C30_StakesListAndReward ==
    [][\A p \in Procs :
          Leaves(p, "v_stakes") /\ result'[p] = "ok"
              => LET o == op[p].user_id
                     listed == loc'[p].stakes
                 IN /\ \A i \in 1..Len(listed) :
                          \E j \in 1..Len(positions) :
                              positions[j].id = listed[i] /\ positions[j].user_id = o
                    /\ \A j \in 1..Len(positions) :
                          positions[j].user_id = o
                              => \E i \in 1..Len(listed) : listed[i] = positions[j].id
                    /\ \A i, k \in 1..Len(listed) :
                          i < k => PositionIndex(listed[i]) > PositionIndex(listed[k])
                    /\ op[p].kind = "portfolio"
                          => loc'[p].total_expected * 365 = SumRewardTerms(positions, o)
                    /\ UNCHANGED <<wallets, ledger, positions>>]_vars

\* the sum of the balances of the rows w of the given owners
RECURSIVE TotalBalance(_, _)
TotalBalance(w, owners) ==
    IF owners = {} THEN 0
    ELSE LET o == CHOOSE x \in owners : TRUE
         IN w[o].balance + TotalBalance(w, owners \ {o})

\* C31: a transfer that succeeds, also one of a user to themself, leaves the
\* sum of all balances as it was
C31_TransferKeepsTotal ==
    [][\A p \in Procs :
          Leaves(p, "t_select_to") /\ result'[p] = "ok"
              => TotalBalance(wallets', Owners) = TotalBalance(wallets, Owners)]_vars

\* the sum of the principals of the positions of the wallet
RECURSIVE WalletPrincipal(_, _)
WalletPrincipal(rows, wallet_id) ==
    IF rows = <<>> THEN 0
    ELSE (IF Head(rows).wallet_id = wallet_id THEN Head(rows).amount_slh ELSE 0)
         + WalletPrincipal(Tail(rows), wallet_id)

\* the ledger entries of the wallet with ref_type 'stake'
StakeEntries(wallet_id) ==
    SelectSeq(ledger, LAMBDA e : e.wallet_id = wallet_id /\ e.ref_type = "stake")

\* C32: in every committed state the principals of the positions of a wallet
\* sum to minus the sum of the deltas of its ledger entries tagged 'stake',
\* and each of these entries refers to a position of that wallet
C32_StakeLedgerMatchesPositions ==
    \A o \in Owners :
        wallets[o].exists
            => LET id == wallets[o].id
               IN /\ WalletPrincipal(positions, id)
                        = 0 - SumChanges(StakeEntries(id), id)
                  /\ \A k \in 1..Len(ledger) :
                        ledger[k].wallet_id = id /\ ledger[k].ref_type = "stake"
                            => \E i \in 1..Len(positions) :
                                  /\ positions[i].id = ledger[k].ref_id
                                  /\ positions[i].wallet_id = id

\* a wallet has a position and the ledger entry of it, next to an entry of
\* another kind, and no call is running
C32_Witness ==
    /\ \A p \in Procs : pc[p] = "idle"
    /\ \E o \in Owners, i \in 1..Len(positions), k, n \in 1..Len(ledger) :
          /\ wallets[o].exists
          /\ positions[i].wallet_id = wallets[o].id
          /\ ledger[k].ref_type = "stake" /\ ledger[k].ref_id = positions[i].id
          /\ ledger[k].wallet_id = wallets[o].id
          /\ ledger[n].ref_type # "stake" /\ ledger[n].wallet_id = wallets[o].id

\* C33: when a view has read the balance and the positions of a user, with
\* nothing but stake calls running next to it, the balance plus the staked
\* total it reports is at most the balance plus the staked principal the
\* user has
C33_ViewFromOneState ==
    [][\A p \in Procs :
          /\ Leaves(p, "v_stakes") /\ result'[p] = "ok"
          /\ \A q \in Procs \ {p} : op[q].kind \in {"none", "stake"}
          => LET o == op[p].user_id
             IN loc'[p].balance + loc'[p].total_staked
                   <= wallets[o].balance
                      + ActivePrincipal(SelectSeq(positions, LAMBDA r : r.user_id = o))]_vars

\* C34: a step of /approve or /reject leaves the status of a payment that is
\* approved as it is
C34_ApprovedIsTerminal ==
    [][\A p \in Procs :
          StepOf(p, {"approve", "reject"})
              => \A o \in Owners :
                    payments[o] = "approved" => payments'[o] = "approved"]_vars

\* C35: for any calls of start(), initialize_handlers() and the webhook, an
\* Application is built, initialized and started at most once and its
\* handlers are registered at most once
C35_ApplicationStartedOnce ==
    /\ app.created <= 1 /\ app.handlers <= 1
    /\ app.initialize <= 1 /\ app.start <= 1
    /\ bot_app.created <= 1 /\ bot_app.handlers <= 1
    /\ bot_app.initialize <= 1 /\ bot_app.start <= 1

====
